---- MODULE Spec2Model ----
(***************************************************************************)
(* The OAuth broker of src/src/auth.ts: the authorize, consent and         *)
(* callback handlers, threaded through one transaction whose bundle is     *)
(* persisted in a cookie named after the transaction id.  The handlers     *)
(* keep no memory between requests: the only place a PendingAuthorization  *)
(* lives is the cookie the user agent holds and sends back.                *)
(***************************************************************************)
EXTENDS Integers, Sequences, FiniteSets, TLC

\* ----- bounds of the model
MaxAuth == 2        \* authorize calls that create a transaction
MaxReq == 2         \* consent and callback requests sent by the user agent
MaxSpawns == 12     \* ssh processes the tunnel script spawns
MaxTicks == 2       \* clock ticks, of TickSeconds each

\* ----- program constants
TickSeconds == 3600
MaxAgeSeconds == 3600       \* maxAge: 60 * 60 * 1

\* ----- values
\* Random values are drawn from one generator stream; 0 is the absent value.
Absent == 0
DrawsPerAuthorize == 4
RandomValues == 1..(DrawsPerAuthorize * MaxAuth)

RegisteredClients == {"c1"}
ClientIds == {"", "c1", "nobody"}
RedirectUris == {"https://client.example/cb"}
Scopes == {"openid profile"}
DownstreamStates == {"xyz"}
Codes == {"ABC", "DEF"}
ConsentActions == {"approve", "deny", "maybe", ""}

\* oauth.generateRandomState / generateRandomCodeVerifier / generateRandomNonce:
\* the n-th draw after r draws; a value never drawn before.
generateRandom(r, n) == r + n

\* oauth.calculatePKCECodeChallenge: the S256 image of the verifier.
calculatePKCECodeChallenge(v) == <<"S256", v>>

\* `auth0_req_${transactionState}`
cookieName(t) == <<"auth0_req_", t>>

\* btoa(JSON.stringify(x)) and JSON.parse(atob(s))
encodeCookie(x) == <<"b64", x>>
decodeCookie(s) == s[2]

NoAuthRequest == [clientId |-> "", redirectUri |-> "", scope |-> "", state |-> ""]

NoBundle ==
    [mcpAuthRequest |-> NoAuthRequest, codeVerifier |-> Absent,
     codeChallenge |-> calculatePKCECodeChallenge(Absent), nonce |-> Absent,
     transactionState |-> Absent, consentToken |-> Absent]

\* the value of a cookie the request does not carry
NoCookie == <<"">>

VARIABLES
    rng,        \* number of random values drawn so far
    now,        \* wall clock, in seconds
    issued,     \* the cookies authorize has set: [name, value, at]
    jar,        \* the user agent's cookie jar: [name, value, expires]
    net,        \* requests sent and not yet handled
    nreq,       \* number of consent and callback requests sent
    last,       \* the request handled last, its response, and what it observed
    invalidated,\* transaction ids whose cookie a handler has cleared
    errored,    \* transaction ids that ended a consent or callback in an error
    granted,    \* per transaction id, the codes redeemed in a completeAuthorization
    waiting,    \* callbacks in flight while a callback with their state found a bundle
    tunnel,     \* the SSHTunnel object: process, reconnectAttempts
    node,       \* the script's runtime: child processes, timers, exit status
    client      \* ClaudeMCPClient.start and waitForTunnel: position, i, probes

\* the state of the broker and the state of the tunnel scripts
broker == <<rng, now, issued, jar, net, nreq, last, invalidated, errored,
            granted, waiting>>

scripts == <<tunnel, node, client>>

vars == <<rng, now, issued, jar, net, nreq, last, invalidated, errored,
          granted, waiting, tunnel, node, client>>

\* ----- HTTP responses
NoLocation ==
    [to |-> "", uri |-> "", error |-> "", state |-> "", code_challenge |-> <<>>,
     code_challenge_method |-> "", nonce |-> Absent, response_type |-> ""]

NoPage == [transaction_state |-> Absent, consent_token |-> Absent, redirectUri |-> ""]

NoClaims == [sub |-> "", name |-> "", email |-> "", nonce |-> Absent]

NoTokenSet == [accessToken |-> "", accessTokenTTL |-> 0, idToken |-> "", refreshToken |-> ""]

NoGrant ==
    [userId |-> "", label |-> "", scope |-> "", request |-> NoAuthRequest,
     claims |-> NoClaims, tokenSet |-> NoTokenSet]

\* no code exchange was requested
NoCodeGrantRequest == [code |-> "", code_verifier |-> Absent]

\* c.text(text, status); with what the handler did on the way: the requests it
\* made, the code exchange it sent and the nonce it expected in the ID token
text(body, status) ==
    [status |-> status, text |-> body, location |-> NoLocation, setCookies |-> {},
     calls |-> <<>>, grant |-> NoGrant, page |-> NoPage, draws |-> 0,
     codeGrantRequest |-> NoCodeGrantRequest, expectedNonce |-> Absent]

\* an exception that leaves the handler: the framework answers 500 and keeps
\* the headers the handler had already set on the context
thrown(cookies, calls) ==
    [text("Internal Server Error", 500) EXCEPT !.setCookies = cookies, !.calls = calls]

\* c.redirect(location)
redirect(location, cookies, calls) ==
    [text("", 302) EXCEPT !.location = location, !.setCookies = cookies, !.calls = calls]

\* getCookie(c, name): the value of the cookie of that name in the request
getCookie(req, name) ==
    IF \E ck \in req.cookies : ck.name = name
    THEN (CHOOSE ck \in req.cookies : ck.name = name).value
    ELSE NoCookie

\* a clearing Set-Cookie, were it to name the cookie of the first transaction
clearCookieOfFirst(name) ==
    [name |-> <<"auth0_req_", generateRandom(0, 2)>>, value |-> NoCookie, maxAge |-> 0]

\* setCookie(c, name, "", {maxAge: 0, path: "/"})
clearCookie(name) == [name |-> name, value |-> NoCookie, maxAge |-> 0]

\* ----- the consent page
renderConsentScreen(redirectUri, transactionState, consentToken) ==
    [transaction_state |-> transactionState, consent_token |-> consentToken,
     redirectUri |-> redirectUri]

\* authorize, were the page to embed another fresh value than the consent
\* token it stores
authorizeOtherToken(req, r) ==
    IF req.clientId = "" THEN text("Invalid request", 400)
    ELSE IF req.clientId \notin RegisteredClients THEN text("Invalid client", 400)
    ELSE
        LET codeVerifier == generateRandom(r, 1)
            transactionState == generateRandom(r, 2)
            consentToken == generateRandom(r, 3)
            auth0AuthRequest ==
                [codeChallenge |-> calculatePKCECodeChallenge(codeVerifier),
                 codeVerifier |-> codeVerifier,
                 consentToken |-> consentToken,
                 mcpAuthRequest |-> req,
                 nonce |-> generateRandom(r, 4),
                 transactionState |-> transactionState]
        IN  [text("", 200) EXCEPT
                !.setCookies = {[name |-> cookieName(transactionState),
                                 value |-> encodeCookie(auth0AuthRequest),
                                 maxAge |-> MaxAgeSeconds]},
                !.page = renderConsentScreen(req.redirectUri, transactionState,
                                             auth0AuthRequest.nonce),
                !.draws = DrawsPerAuthorize]

\* authorize, were it to create the session before it looks at the client
authorizeSessionFirst(req, r) ==
    LET codeVerifier == generateRandom(r, 1)
        transactionState == generateRandom(r, 2)
        consentToken == generateRandom(r, 3)
        auth0AuthRequest ==
            [codeChallenge |-> calculatePKCECodeChallenge(codeVerifier),
             codeVerifier |-> codeVerifier,
             consentToken |-> consentToken,
             mcpAuthRequest |-> req,
             nonce |-> generateRandom(r, 4),
             transactionState |-> transactionState]
        session == {[name |-> cookieName(transactionState),
                     value |-> encodeCookie(auth0AuthRequest),
                     maxAge |-> MaxAgeSeconds]}
    IN  IF req.clientId = ""
        THEN [text("Invalid request", 400) EXCEPT
                 !.setCookies = session, !.draws = DrawsPerAuthorize]
        ELSE IF req.clientId \notin RegisteredClients
        THEN [text("Invalid client", 400) EXCEPT
                 !.setCookies = session, !.draws = DrawsPerAuthorize]
        ELSE [text("", 200) EXCEPT
                 !.setCookies = session,
                 !.page = renderConsentScreen(req.redirectUri, transactionState,
                                              consentToken),
                 !.draws = DrawsPerAuthorize]

\* ----- GET /authorize
authorize(req, r) ==
    IF req.clientId = "" THEN text("Invalid request", 400)
    ELSE IF req.clientId \notin RegisteredClients THEN text("Invalid client", 400)
    ELSE
        LET codeVerifier == generateRandom(r, 1)
            transactionState == generateRandom(r, 2)
            consentToken == generateRandom(r, 3)
            auth0AuthRequest ==
                [codeChallenge |-> calculatePKCECodeChallenge(codeVerifier),
                 codeVerifier |-> codeVerifier,
                 consentToken |-> consentToken,
                 mcpAuthRequest |-> req,
                 nonce |-> generateRandom(r, 4),
                 transactionState |-> transactionState]
        IN  [text("", 200) EXCEPT
                !.setCookies = {[name |-> cookieName(transactionState),
                                 value |-> encodeCookie(auth0AuthRequest),
                                 maxAge |-> MaxAgeSeconds]},
                !.page = renderConsentScreen(req.redirectUri, transactionState,
                                             consentToken),
                !.draws = DrawsPerAuthorize]

\* ----- the upstream identity provider, as the handlers see it
\* getOidcConfig, were it to ask a second time when discovery fails
getOidcConfigRetry(idp) ==
    [ok |-> idp.discovery,
     calls |-> IF idp.discovery THEN <<"discovery">> ELSE <<"discovery", "discovery">>]

\* getOidcConfig: one discovery request; it throws when discovery fails
getOidcConfig(idp) == [ok |-> idp.discovery, calls |-> <<"discovery">>]

\* oauth.validateAuthResponse(as, client, url, expectedState): throws on an
\* error response or when the state parameter is not the expected one
validateAuthResponse(req, expectedState) ==
    /\ ~req.error
    /\ req.state = expectedState

\* processAuthorizationCodeResponse, were it given no expectedNonce
processAuthorizationCodeResponseAnyNonce(response, expectedNonce) ==
    /\ response.ok
    /\ response.id_token # ""
    /\ response.issAudOk

\* oauth.processAuthorizationCodeResponse(as, client, response,
\*   {expectedNonce, requireIdToken: true}): throws on an error response, on a
\* missing or invalid ID token, and on an ID token with another nonce
processAuthorizationCodeResponse(response, expectedNonce) ==
    /\ response.ok
    /\ response.id_token # ""
    /\ response.issAudOk
    /\ response.claims.nonce = expectedNonce

\* oauth.getValidatedIdTokenClaims(result)
getValidatedIdTokenClaims(result) ==
    IF result.id_token # "" THEN result.claims ELSE NoClaims

\* the label, were the email to come before the name
labelEmailFirst(claims) ==
    IF claims.email # "" THEN claims.email
    ELSE IF claims.name # "" THEN claims.name
    ELSE claims.sub

\* claims.name || claims.email || claims.sub
label(claims) ==
    IF claims.name # "" THEN claims.name
    ELSE IF claims.email # "" THEN claims.email
    ELSE claims.sub

\* confirmConsent, were it to look at the action before the consent token
confirmConsentActionFirst(req, idp) ==
    LET transactionState == req.transaction_state
        name == cookieName(transactionState)
        auth0AuthRequestCookie == getCookie(req, name)
        auth0AuthRequest == decodeCookie(auth0AuthRequestCookie)
        config == getOidcConfig(idp)
    IN  IF transactionState = Absent THEN text("Invalid transaction state", 400)
        ELSE IF auth0AuthRequestCookie = NoCookie
        THEN text("Invalid or expired transaction", 400)
        ELSE IF req.consent_action # "approve"
        THEN redirect([NoLocation EXCEPT
                          !.to = "client",
                          !.uri = auth0AuthRequest.mcpAuthRequest.redirectUri,
                          !.error = "access_denied",
                          !.state = auth0AuthRequest.mcpAuthRequest.state],
                      {clearCookie(name)}, <<>>)
        ELSE IF auth0AuthRequest.consentToken # req.consent_token
        THEN text("Invalid consent token", 403)
        ELSE IF ~config.ok THEN thrown({}, config.calls)
        ELSE redirect([NoLocation EXCEPT
                          !.to = "idp",
                          !.response_type = "code",
                          !.code_challenge = auth0AuthRequest.codeChallenge,
                          !.code_challenge_method = "S256",
                          !.nonce = auth0AuthRequest.nonce,
                          !.state = transactionState],
                      {}, config.calls)

\* confirmConsent, were the deny redirect to leave out the downstream state
confirmConsentNoState(req, idp) ==
    LET transactionState == req.transaction_state
        name == cookieName(transactionState)
        auth0AuthRequestCookie == getCookie(req, name)
        auth0AuthRequest == decodeCookie(auth0AuthRequestCookie)
        config == getOidcConfig(idp)
    IN  IF transactionState = Absent THEN text("Invalid transaction state", 400)
        ELSE IF auth0AuthRequestCookie = NoCookie
        THEN text("Invalid or expired transaction", 400)
        ELSE IF auth0AuthRequest.consentToken # req.consent_token
        THEN text("Invalid consent token", 403)
        ELSE IF req.consent_action # "approve"
        THEN redirect([NoLocation EXCEPT
                          !.to = "client",
                          !.uri = auth0AuthRequest.mcpAuthRequest.redirectUri,
                          !.error = "access_denied"],
                      {clearCookie(name)}, <<>>)
        ELSE IF ~config.ok THEN thrown({}, config.calls)
        ELSE redirect([NoLocation EXCEPT
                          !.to = "idp",
                          !.response_type = "code",
                          !.code_challenge = auth0AuthRequest.codeChallenge,
                          !.code_challenge_method = "S256",
                          !.nonce = auth0AuthRequest.nonce,
                          !.state = transactionState],
                      {}, config.calls)

\* confirmConsent, were the upstream redirect to carry the consent token as nonce
\* and the verifier itself as challenge
confirmConsentOtherParams(req, idp) ==
    LET transactionState == req.transaction_state
        name == cookieName(transactionState)
        auth0AuthRequestCookie == getCookie(req, name)
        auth0AuthRequest == decodeCookie(auth0AuthRequestCookie)
        config == getOidcConfig(idp)
    IN  IF transactionState = Absent THEN text("Invalid transaction state", 400)
        ELSE IF auth0AuthRequestCookie = NoCookie
        THEN text("Invalid or expired transaction", 400)
        ELSE IF auth0AuthRequest.consentToken # req.consent_token
        THEN text("Invalid consent token", 403)
        ELSE IF req.consent_action # "approve"
        THEN redirect([NoLocation EXCEPT
                          !.to = "client",
                          !.uri = auth0AuthRequest.mcpAuthRequest.redirectUri,
                          !.error = "access_denied",
                          !.state = auth0AuthRequest.mcpAuthRequest.state],
                      {clearCookie(name)}, <<>>)
        ELSE IF ~config.ok THEN thrown({}, config.calls)
        ELSE redirect([NoLocation EXCEPT
                          !.to = "idp",
                          !.response_type = "code",
                          !.code_challenge = <<"plain", auth0AuthRequest.codeVerifier>>,
                          !.code_challenge_method = "S256",
                          !.nonce = auth0AuthRequest.consentToken,
                          !.state = transactionState],
                      {}, config.calls)

\* confirmConsent, were it to configure the provider before it looks for the
\* transaction
confirmConsentConfigFirst(req, idp) ==
    LET transactionState == req.transaction_state
        name == cookieName(transactionState)
        auth0AuthRequestCookie == getCookie(req, name)
        auth0AuthRequest == decodeCookie(auth0AuthRequestCookie)
        config == getOidcConfig(idp)
    IN  IF ~config.ok THEN thrown({}, config.calls)
        ELSE IF transactionState = Absent
        THEN [text("Invalid transaction state", 400) EXCEPT !.calls = config.calls]
        ELSE IF auth0AuthRequestCookie = NoCookie
        THEN [text("Invalid or expired transaction", 400) EXCEPT !.calls = config.calls]
        ELSE IF auth0AuthRequest.consentToken # req.consent_token
        THEN [text("Invalid consent token", 403) EXCEPT !.calls = config.calls]
        ELSE IF req.consent_action # "approve"
        THEN redirect([NoLocation EXCEPT
                          !.to = "client",
                          !.uri = auth0AuthRequest.mcpAuthRequest.redirectUri,
                          !.error = "access_denied",
                          !.state = auth0AuthRequest.mcpAuthRequest.state],
                      {clearCookie(name)}, config.calls)
        ELSE redirect([NoLocation EXCEPT
                          !.to = "idp",
                          !.response_type = "code",
                          !.code_challenge = auth0AuthRequest.codeChallenge,
                          !.code_challenge_method = "S256",
                          !.nonce = auth0AuthRequest.nonce,
                          !.state = transactionState],
                      {}, config.calls)

\* confirmConsent, were it to deny on the action deny only and to go on to the
\* provider on every other action
confirmConsentDenyOnly(req, idp) ==
    LET transactionState == req.transaction_state
        name == cookieName(transactionState)
        auth0AuthRequestCookie == getCookie(req, name)
        auth0AuthRequest == decodeCookie(auth0AuthRequestCookie)
        config == getOidcConfig(idp)
    IN  IF transactionState = Absent THEN text("Invalid transaction state", 400)
        ELSE IF auth0AuthRequestCookie = NoCookie
        THEN text("Invalid or expired transaction", 400)
        ELSE IF auth0AuthRequest.consentToken # req.consent_token
        THEN text("Invalid consent token", 403)
        ELSE IF req.consent_action = "deny"
        THEN redirect([NoLocation EXCEPT
                          !.to = "client",
                          !.uri = auth0AuthRequest.mcpAuthRequest.redirectUri,
                          !.error = "access_denied",
                          !.state = auth0AuthRequest.mcpAuthRequest.state],
                      {clearCookie(name)}, <<>>)
        ELSE IF ~config.ok THEN thrown({}, config.calls)
        ELSE redirect([NoLocation EXCEPT
                          !.to = "idp",
                          !.response_type = "code",
                          !.code_challenge = auth0AuthRequest.codeChallenge,
                          !.code_challenge_method = "S256",
                          !.nonce = auth0AuthRequest.nonce,
                          !.state = transactionState],
                      {}, config.calls)

\* ----- POST /authorize/consent
confirmConsent(req, idp) ==
    LET transactionState == req.transaction_state
        name == cookieName(transactionState)
        auth0AuthRequestCookie == getCookie(req, name)
        auth0AuthRequest == decodeCookie(auth0AuthRequestCookie)
        config == getOidcConfig(idp)
    IN  IF transactionState = Absent THEN text("Invalid transaction state", 400)
        ELSE IF auth0AuthRequestCookie = NoCookie
        THEN text("Invalid or expired transaction", 400)
        ELSE IF auth0AuthRequest.consentToken # req.consent_token
        THEN text("Invalid consent token", 403)
        ELSE IF req.consent_action # "approve"
        THEN redirect([NoLocation EXCEPT
                          !.to = "client",
                          !.uri = auth0AuthRequest.mcpAuthRequest.redirectUri,
                          !.error = "access_denied",
                          !.state = auth0AuthRequest.mcpAuthRequest.state],
                      {clearCookie(name)}, <<>>)
        ELSE IF ~config.ok THEN thrown({}, config.calls)
        ELSE redirect([NoLocation EXCEPT
                          !.to = "idp",
                          !.response_type = "code",
                          !.code_challenge = auth0AuthRequest.codeChallenge,
                          !.code_challenge_method = "S256",
                          !.nonce = auth0AuthRequest.nonce,
                          !.state = transactionState],
                      {}, config.calls)

\* ----- GET /callback
\* OAUTH_PROVIDER.completeAuthorization(options): the grant handed to the
\* downstream authorization layer
completeAuthorization(auth0AuthRequest, claims, result) ==
    [userId |-> claims.sub,
     label |-> label(claims),
     scope |-> auth0AuthRequest.mcpAuthRequest.scope,
     request |-> auth0AuthRequest.mcpAuthRequest,
     claims |-> claims,
     tokenSet |-> [accessToken |-> result.access_token,
                   accessTokenTTL |-> result.expires_in,
                   idToken |-> result.id_token,
                   refreshToken |-> result.refresh_token]]

\* the code exchange, were it sent with another value than the stored verifier
authorizationCodeGrantRequestOtherVerifier(params, codeVerifier) ==
    [code |-> params.code, code_verifier |-> codeVerifier + 1]

\* oauth.authorizationCodeGrantRequest(as, client, clientAuth, params,
\* redirectUri, codeVerifier): the token request for the code of the callback
authorizationCodeGrantRequest(params, codeVerifier) ==
    [code |-> params.code, code_verifier |-> codeVerifier]

callback(req, idp) ==
    LET stateParam == req.state
        name == cookieName(stateParam)
        auth0AuthRequestCookie == getCookie(req, name)
        auth0AuthRequest == decodeCookie(auth0AuthRequestCookie)
        cleared == {clearCookie(name)}
        config == getOidcConfig(idp)
        exchange == config.calls \o <<"code_exchange">>
        tokenRequest == authorizationCodeGrantRequest(req, auth0AuthRequest.codeVerifier)
        result == idp.response
        claims == getValidatedIdTokenClaims(result)
        grant == completeAuthorization(auth0AuthRequest, claims, result)
    IN  IF stateParam = Absent THEN text("Invalid state parameter", 400)
        ELSE IF auth0AuthRequestCookie = NoCookie
        THEN text("Invalid transaction state or session expired", 400)
        ELSE IF ~config.ok THEN thrown(cleared, config.calls)
        ELSE IF ~validateAuthResponse(req, auth0AuthRequest.transactionState)
        THEN thrown(cleared, config.calls)
        ELSE IF req.code = "" THEN thrown(cleared, config.calls)
        ELSE IF ~processAuthorizationCodeResponse(result, auth0AuthRequest.nonce)
        THEN [thrown(cleared, exchange) EXCEPT
                 !.codeGrantRequest = tokenRequest,
                 !.expectedNonce = auth0AuthRequest.nonce]
        ELSE IF claims = NoClaims
        THEN [text("Received invalid id_token from Auth0", 400) EXCEPT
                 !.setCookies = cleared, !.calls = exchange,
                 !.codeGrantRequest = tokenRequest,
                 !.expectedNonce = auth0AuthRequest.nonce]
        ELSE [redirect([NoLocation EXCEPT
                           !.to = "completion",
                           !.uri = grant.request.redirectUri,
                           !.state = grant.request.state],
                       cleared, exchange)
                 EXCEPT !.grant = grant,
                        !.codeGrantRequest = tokenRequest,
                        !.expectedNonce = auth0AuthRequest.nonce]

\* ----- tokenExchangeCallback
\* the property bag of a grant: UserProps
NoProps == [claims |-> NoClaims, tokenSet |-> NoTokenSet]

\* what a call of tokenExchangeCallback ends in: a returned result, a thrown
\* error, or nothing (void); with the requests it made on the way
NoExchange ==
    [outcome |-> "void", error |-> "", accessTokenTTL |-> Absent, newProps |-> NoProps,
     calls |-> <<>>]

fatal(message, calls) ==
    [NoExchange EXCEPT !.outcome = "thrown", !.error = message, !.calls = calls]

\* oauth.processRefreshTokenResponse(as, client, response): throws on an error
\* response and on an ID token that does not validate; an ID token is optional
processRefreshTokenResponse(response) ==
    /\ response.ok
    /\ response.id_token # "" => response.issAudOk

\* the authorization_code branch, were it to hand out a lifetime of its own
authorizationCodeResultFixedTTL(options) ==
    [NoExchange EXCEPT
        !.outcome = "returned",
        !.accessTokenTTL = 3600,
        !.newProps = options.props]

\* the authorization_code branch, were it to hand on the token set without the
\* claims
authorizationCodeResultNoClaims(options) ==
    [NoExchange EXCEPT
        !.outcome = "returned",
        !.accessTokenTTL = options.props.tokenSet.accessTokenTTL,
        !.newProps = [options.props EXCEPT !.claims = NoClaims]]

\* the authorization_code branch
authorizationCodeResult(options) ==
    [NoExchange EXCEPT
        !.outcome = "returned",
        !.accessTokenTTL = options.props.tokenSet.accessTokenTTL,
        !.newProps = options.props]

\* the returned object of the refresh branch, were it to keep the prior claims
refreshResultPriorClaims(options, refreshTokenResponse, claims, calls) ==
    [NoExchange EXCEPT
        !.outcome = "returned",
        !.accessTokenTTL = refreshTokenResponse.expires_in,
        !.newProps =
            [claims |-> options.props.claims,
             tokenSet |->
                [accessToken |-> refreshTokenResponse.access_token,
                 accessTokenTTL |-> refreshTokenResponse.expires_in,
                 idToken |-> refreshTokenResponse.id_token,
                 refreshToken |->
                    IF refreshTokenResponse.refresh_token # ""
                    THEN refreshTokenResponse.refresh_token
                    ELSE options.props.tokenSet.refreshToken]],
        !.calls = calls]

\* the returned object of the refresh branch, were it to take the refresh token
\* from the response only
refreshResultNoFallback(options, refreshTokenResponse, claims, calls) ==
    [NoExchange EXCEPT
        !.outcome = "returned",
        !.accessTokenTTL = refreshTokenResponse.expires_in,
        !.newProps =
            [claims |-> claims,
             tokenSet |->
                [accessToken |-> refreshTokenResponse.access_token,
                 accessTokenTTL |-> refreshTokenResponse.expires_in,
                 idToken |-> refreshTokenResponse.id_token,
                 refreshToken |-> refreshTokenResponse.refresh_token]],
        !.calls = calls]

\* the returned object of the refresh branch, were it to return the lifetime of
\* the prior token set
refreshResultPriorTTL(options, refreshTokenResponse, claims, calls) ==
    [NoExchange EXCEPT
        !.outcome = "returned",
        !.accessTokenTTL = options.props.tokenSet.accessTokenTTL,
        !.newProps =
            [claims |-> claims,
             tokenSet |->
                [accessToken |-> refreshTokenResponse.access_token,
                 accessTokenTTL |-> refreshTokenResponse.expires_in,
                 idToken |-> refreshTokenResponse.id_token,
                 refreshToken |->
                    IF refreshTokenResponse.refresh_token # ""
                    THEN refreshTokenResponse.refresh_token
                    ELSE options.props.tokenSet.refreshToken]],
        !.calls = calls]

\* the returned object of the refresh branch: {...options.props, claims, tokenSet}
refreshResult(options, refreshTokenResponse, claims, calls) ==
    [NoExchange EXCEPT
        !.outcome = "returned",
        !.accessTokenTTL = refreshTokenResponse.expires_in,
        !.newProps =
            [claims |-> claims,
             tokenSet |->
                [accessToken |-> refreshTokenResponse.access_token,
                 accessTokenTTL |-> refreshTokenResponse.expires_in,
                 idToken |-> refreshTokenResponse.id_token,
                 refreshToken |->
                    IF refreshTokenResponse.refresh_token # ""
                    THEN refreshTokenResponse.refresh_token
                    ELSE options.props.tokenSet.refreshToken]],
        !.calls = calls]

\* tokenExchangeCallback, were it to configure the provider before it looks for
\* the refresh token
tokenExchangeCallbackConfigFirst(options, idp) ==
    LET auth0RefreshToken == options.props.tokenSet.refreshToken
        config == getOidcConfig(idp)
        refreshed == config.calls \o <<"refresh">>
        refreshTokenResponse == idp.response
        claims == getValidatedIdTokenClaims(refreshTokenResponse)
    IN  IF options.grantType = "authorization_code"
        THEN authorizationCodeResult(options)
        ELSE IF options.grantType # "refresh_token" THEN NoExchange
        ELSE IF ~config.ok THEN fatal("discovery", config.calls)
        ELSE IF auth0RefreshToken = ""
        THEN fatal("No Auth0 refresh token found", config.calls)
        ELSE IF ~processRefreshTokenResponse(refreshTokenResponse)
        THEN fatal("refresh", refreshed)
        ELSE IF claims = NoClaims
        THEN fatal("Received invalid id_token from Auth0", refreshed)
        ELSE refreshResult(options, refreshTokenResponse, claims, refreshed)

\* tokenExchangeCallback, were it to fall back to the prior property bag when
\* the provider rejects the refresh
tokenExchangeCallbackKeepOnReject(options, idp) ==
    LET auth0RefreshToken == options.props.tokenSet.refreshToken
        config == getOidcConfig(idp)
        refreshed == config.calls \o <<"refresh">>
        refreshTokenResponse == idp.response
        claims == getValidatedIdTokenClaims(refreshTokenResponse)
    IN  IF options.grantType = "authorization_code"
        THEN authorizationCodeResult(options)
        ELSE IF options.grantType # "refresh_token" THEN NoExchange
        ELSE IF auth0RefreshToken = ""
        THEN fatal("No Auth0 refresh token found", <<>>)
        ELSE IF ~config.ok THEN fatal("discovery", config.calls)
        ELSE IF ~processRefreshTokenResponse(refreshTokenResponse)
        THEN [authorizationCodeResult(options) EXCEPT !.calls = refreshed]
        ELSE IF claims = NoClaims
        THEN fatal("Received invalid id_token from Auth0", refreshed)
        ELSE refreshResult(options, refreshTokenResponse, claims, refreshed)

tokenExchangeCallback(options, idp) ==
    LET auth0RefreshToken == options.props.tokenSet.refreshToken
        config == getOidcConfig(idp)
        refreshed == config.calls \o <<"refresh">>
        refreshTokenResponse == idp.response
        claims == getValidatedIdTokenClaims(refreshTokenResponse)
    IN  IF options.grantType = "authorization_code"
        THEN authorizationCodeResult(options)
        ELSE IF options.grantType # "refresh_token" THEN NoExchange
        ELSE IF auth0RefreshToken = ""
        THEN fatal("No Auth0 refresh token found", <<>>)
        ELSE IF ~config.ok THEN fatal("discovery", config.calls)
        ELSE IF ~processRefreshTokenResponse(refreshTokenResponse)
        THEN fatal("refresh", refreshed)
        ELSE IF claims = NoClaims
        THEN fatal("Received invalid id_token from Auth0", refreshed)
        ELSE refreshResult(options, refreshTokenResponse, claims, refreshed)

\* ----- the environment: user agent, clock, identity provider
IssuedBundles == {decodeCookie(ck.value) : ck \in issued}
IssuedTids == {b.transactionState : b \in IssuedBundles}
BundleOf(t) == CHOOSE b \in IssuedBundles : b.transactionState = t
IssuedAt(t) == (CHOOSE ck \in issued : ck.name = cookieName(t)).at

\* A request is modelled with the one cookie its handler looks up, the one
\* named after the request's transaction id.
\* What a user agent sends: the cookie of its jar, unless it has expired.
JarCookies(t) ==
    {[name |-> ck.name, value |-> ck.value] :
        ck \in {c \in jar : c.name = cookieName(t) /\ c.expires > now}}
\* What a client that kept the cookie it was given can send.
KeptCookies(t) ==
    {[name |-> ck.name, value |-> ck.value] :
        ck \in {c \in issued : c.name = cookieName(t)}}

\* the jar after a response's Set-Cookie headers
Store(setCookies) ==
    {ck \in jar : \A sc \in setCookies : sc.name # ck.name}
        \cup {[name |-> sc.name, value |-> sc.value, expires |-> now + sc.maxAge] :
                sc \in {c \in setCookies : c.maxAge > 0}}

\* requests in flight are told apart by a number, the least one not in use
FreeId == CHOOSE n \in 1..(Cardinality(net) + 1) : \A q \in net : q.id # n

\* downstream authorization requests, as parseAuthRequest returns them
AuthRequests ==
    [clientId : RegisteredClients, redirectUri : RedirectUris, scope : Scopes,
     state : DownstreamStates]
        \cup [clientId : ClientIds \ RegisteredClients, redirectUri : RedirectUris,
              scope : Scopes, state : {""}]

\* the claims of an ID token
IdTokenClaims(nonces) ==
    {[sub |-> "auth0|u1", name |-> n[1], email |-> n[2], nonce |-> k] :
        n \in {<<"Ann", "ann@x.example">>},
        k \in nonces}

\* the token endpoint's answer to a code exchange: an error, or a token set
\* with or without an ID token
ErrorResponse ==
    [ok |-> FALSE, issAudOk |-> FALSE, id_token |-> "", claims |-> NoClaims,
     access_token |-> "", expires_in |-> 0, refresh_token |-> ""]

GoodResponse ==
    [ErrorResponse EXCEPT !.ok = TRUE, !.issAudOk = TRUE, !.access_token = "at",
                          !.expires_in = 3600, !.refresh_token = "rt"]

\* error, no ID token, wrong issuer or audience, or a token with one of the nonces
TokenResponses(nonces) ==
    {ErrorResponse, GoodResponse,
     [GoodResponse EXCEPT !.id_token = "idt", !.issAudOk = FALSE]}
        \cup {[GoodResponse EXCEPT !.id_token = "idt", !.claims = c] :
                c \in IdTokenClaims(nonces)}

NoIdp == [discovery |-> TRUE, response |-> ErrorResponse]

\* what the provider does while one request is handled
IdpBehaviours(nonces) ==
    {[discovery |-> FALSE, response |-> ErrorResponse]}
        \cup [discovery : {TRUE}, response : TokenResponses(nonces)]

\* A request in flight r belongs to the transaction r.tx whose cookie it may
\* carry; its form fields or query are read when it is handled.
\* The form of a consent submission, and whether discovery succeeds.
ConsentInputs(r) ==
    {[req |-> [transaction_state |-> Absent, consent_token |-> Absent,
               consent_action |-> "", cookies |-> r.cookies],
      idp |-> NoIdp]}
        \cup UNION {{[req |-> [transaction_state |-> r.tx, consent_token |-> tok,
                               consent_action |-> act, cookies |-> r.cookies],
                      idp |-> [NoIdp EXCEPT !.discovery = disc]] :
                        tok \in {Absent} \cup {b.consentToken : b \in IssuedBundles},
                        disc \in {d \in BOOLEAN : ~d => act = "approve"}} :
                    act \in ConsentActions}

\* The query of a callback and the provider's behaviour while it is handled: no
\* state, an error redirect, a redirect without code, or a code; the provider
\* does not accept a code that has already been redeemed for a grant.
CallbackInputs(r) ==
    {[req |-> [state |-> q[1], code |-> "", error |-> q[2], cookies |-> r.cookies],
      idp |-> NoIdp] :
        q \in {<<Absent, FALSE>>, <<r.tx, FALSE>>, <<r.tx, TRUE>>}}
        \cup UNION {{[req |-> [state |-> r.tx, code |-> code, error |-> FALSE,
                               cookies |-> r.cookies],
                      idp |-> idp] :
                        idp \in {i \in IdpBehaviours({Absent} \cup {b.nonce : b \in IssuedBundles}) :
                                   i.response.ok => \A t \in RandomValues : code \notin granted[t]}} :
                    code \in Codes}

NoObs == [found |-> FALSE, stale |-> FALSE, failed |-> FALSE, raced |-> FALSE,
          dup |-> FALSE, age |-> 0]

\* what the handling of request r, asking for transaction t, meets
Observe(r, t, req) ==
    [found |-> t # Absent /\ getCookie(req, cookieName(t)) # NoCookie,
     stale |-> t \in invalidated,
     failed |-> t \in errored,
     raced |-> t # Absent /\ r.id \in waiting,
     dup |-> /\ last.handler = r.kind
             /\ last.req = req
             /\ last.obs.found,
     age |-> IF t \in IssuedTids THEN now - IssuedAt(t) ELSE 0]

Cleared(res) == {sc.name[2] : sc \in {c \in res.setCookies : c.maxAge = 0}}

\* ----- scripts/ssh-tunnel.js and scripts/claude-client.js
\* durations are in milliseconds; the clock of the scripts moves in steps of
\* TickMs
TickMs == 1000
reconnectDelay == 5000
maxReconnectAttempts == 10
EstablishedDelay == 2000
maxAttempts == 10

\* this.process = null
null == 0

\* exit codes of ssh as the exit event reports them: 0, an error code, or null
\* when the process was ended by a signal
nullCode == -2
NoCode == -1
ExitCodes == {0, 255}

\* process.exit has not been called
Running == -1

\* new SSHTunnel(config)
NewTunnel == [process |-> null, reconnectAttempts |-> 0]

\* The runtime before the script's main has run: no child process, no timer.
\* stopCalled records that stop() has been called, established what the
\* two-second timer that last reset the counter found: nothing yet, a process
\* that was running, or one that had already exited.
NewNode ==
    [children |-> <<>>, timers |-> {}, exitStatus |-> Running,
     stopCalled |-> FALSE, established |-> "never"]

\* new ClaudeMCPClient(config), before start()
NewClient == [pc |-> "idle", i |-> 0, probes |-> 0, failures |-> 0]

\* spawn('ssh', sshArgs): a child process, with the flag subprocess.killed;
\* afterStop records whether stop() had been called when it was spawned
spawn(afterStop) ==
    [state |-> "running", killed |-> FALSE, code |-> NoCode, afterStop |-> afterStop]

\* setTimeout(callback, delay), set by or for the child pid
setTimeout(kind, pid, delay) == [kind |-> kind, pid |-> pid, remaining |-> delay]

\* SSHTunnel.start(): spawn ssh, keep it in this.process and set the timer of
\* two seconds
start(st) ==
    LET pid == Len(st.node.children) + 1
    IN  [tunnel |-> [st.tunnel EXCEPT !.process = pid],
         node |-> [st.node EXCEPT
                      !.children = Append(@, spawn(st.node.stopCalled)),
                      !.timers = @ \cup {setTimeout("established", pid, EstablishedDelay)}]]

\* the exit handler, were it to reconnect without counting
onExitUncounted(st, pid, code) ==
    IF code # 0
    THEN [st EXCEPT !.node.timers = @ \cup {setTimeout("reconnect", pid, reconnectDelay)}]
    ELSE st

\* this.process.on('exit', (code) => ...) of the child pid
onExit(st, pid, code) ==
    IF code # 0 /\ st.tunnel.reconnectAttempts < maxReconnectAttempts
    THEN [st EXCEPT
             !.tunnel.reconnectAttempts = @ + 1,
             !.node.timers = @ \cup {setTimeout("reconnect", pid, reconnectDelay)}]
    ELSE IF st.tunnel.reconnectAttempts >= maxReconnectAttempts
    THEN [st EXCEPT !.node.exitStatus = 1]
    ELSE st

\* the callback of the two-second timer: this.process && !this.process.killed
onEstablished(st) ==
    IF st.tunnel.process # null /\ ~st.node.children[st.tunnel.process].killed
    THEN [st EXCEPT
             !.tunnel.reconnectAttempts = 0,
             !.node.established = st.node.children[st.tunnel.process].state]
    ELSE st

\* subprocess.kill(): the signal is sent, and killed set, only to a child that
\* has not exited
kill(child) ==
    IF child.state = "running" THEN [child EXCEPT !.killed = TRUE] ELSE child

\* SSHTunnel.stop()
stop(st) ==
    IF st.tunnel.process # null
    THEN [st EXCEPT
             !.node.children[st.tunnel.process] = kill(@),
             !.tunnel.process = null,
             !.node.stopCalled = TRUE]
    ELSE [st EXCEPT !.node.stopCalled = TRUE]

\* SSHTunnel.testConnection(): true when the health request is answered with
\* an ok status, false on any other status and on a failed request
testConnection(outcome) == outcome = "ok"

\* waitForTunnel, were its loop to run while i <= maxAttempts
waitForTunnelOneMore(cl, ok) ==
    IF ok
    THEN [cl EXCEPT !.pc = "ready", !.probes = @ + 1]
    ELSE IF cl.i + 1 <= maxAttempts
    THEN [cl EXCEPT !.pc = "sleep", !.i = @ + 1, !.probes = @ + 1, !.failures = @ + 1]
    ELSE [cl EXCEPT !.pc = "failed", !.i = @ + 1, !.probes = @ + 1, !.failures = @ + 1]

\* One round of the loop of waitForTunnel(maxAttempts = 10) after its sleep:
\* the probe's result ok ends the wait, and start() reports ready; else i++
\* and the next round, or the throw when i reaches maxAttempts.
waitForTunnel(cl, ok) ==
    IF ok
    THEN [cl EXCEPT !.pc = "ready", !.probes = @ + 1]
    ELSE IF cl.i + 1 < maxAttempts
    THEN [cl EXCEPT !.pc = "sleep", !.i = @ + 1, !.probes = @ + 1, !.failures = @ + 1]
    ELSE [cl EXCEPT !.pc = "failed", !.i = @ + 1, !.probes = @ + 1, !.failures = @ + 1]

Init ==
    /\ rng = 0
    /\ now = 0
    /\ issued = {}
    /\ jar = {}
    /\ net = {}
    /\ nreq = 0
    /\ last = [handler |-> "", req |-> NoAuthRequest, idp |-> NoIdp, obs |-> NoObs,
               res |-> text("", 0)]
    /\ invalidated = {}
    /\ errored = {}
    /\ granted = [t \in RandomValues |-> {}]
    /\ waiting = {}
    /\ tunnel = NewTunnel
    /\ node = NewNode
    /\ client = NewClient

\* an hour passes; requests are answered well within the hour
Tick ==
    /\ net = {}
    /\ now + TickSeconds <= MaxTicks * TickSeconds
    /\ now' = now + TickSeconds
    /\ UNCHANGED <<scripts, rng, issued, jar, net, nreq, last, invalidated, errored, granted,
                   waiting>>

\* GET /authorize, answered at once
Authorize ==
    \E req \in AuthRequests :
        LET res == authorize(req, rng)
        IN  /\ rng + res.draws <= DrawsPerAuthorize * MaxAuth
            /\ rng' = rng + res.draws
            /\ issued' = issued \cup
                   {[name |-> sc.name, value |-> sc.value, at |-> now] : sc \in res.setCookies}
            /\ jar' = Store(res.setCookies)
            /\ last' = [handler |-> "authorize", req |-> req, idp |-> NoIdp, obs |-> NoObs,
                        res |-> res]
            /\ UNCHANGED <<scripts, now, net, nreq, invalidated, errored, granted, waiting>>

\* the user agent sends a consent form or follows the provider's redirect
Send(kind) ==
    /\ nreq < MaxReq
    /\ \E t \in IssuedTids :
        \E cookies \in {JarCookies(t), KeptCookies(t)} :
          net' = net \cup {[id |-> FreeId, kind |-> kind, tx |-> t, cookies |-> cookies]}
    /\ nreq' = nreq + 1
    /\ UNCHANGED <<scripts, rng, now, issued, jar, last, invalidated, errored, granted, waiting>>

SendConsent == Send("consent")

SendCallback == Send("callback")

\* the request r, read as req and asking for transaction t, is answered with
\* res while the provider behaves as idp
Handled(r, t, req, idp, res) ==
    LET obs == Observe(r, t, req)
    IN  /\ net' = net \ {r}
        /\ jar' = Store(res.setCookies)
        /\ last' = [handler |-> r.kind, req |-> req, idp |-> idp, obs |-> obs, res |-> res]
        /\ invalidated' = invalidated \cup Cleared(res)
        /\ errored' = IF obs.found /\ res.status \in {400, 403, 500}
                      THEN errored \cup {t} ELSE errored
        /\ granted' = IF res.grant # NoGrant
                      THEN [granted EXCEPT ![t] = @ \cup {req.code}] ELSE granted
        /\ waiting' = (waiting \ {r.id}) \cup
                      (IF r.kind = "callback" /\ obs.found
                       THEN {q.id : q \in {p \in net \ {r} :
                                              p.kind = "callback" /\ p.tx = t}}
                       ELSE {})
        /\ UNCHANGED <<scripts, rng, now, issued, nreq>>

\* POST /authorize/consent reaches the handler
HandleConsent ==
    \E r \in {q \in net : q.kind = "consent"} :
        \E i \in ConsentInputs(r) :
            Handled(r, i.req.transaction_state, i.req, i.idp, confirmConsent(i.req, i.idp))

\* GET /callback reaches the handler
HandleCallback ==
    \E r \in {q \in net : q.kind = "callback"} :
        \E i \in CallbackInputs(r) :
            Handled(r, i.req.state, i.req, i.idp, callback(i.req, i.idp))

Next ==
    \/ Authorize
    \/ SendConsent
    \/ SendCallback
    \/ HandleConsent
    \/ HandleCallback

Spec == Init /\ [][Next]_vars

\* the same, with time passing
NextClock ==
    \/ Tick
    \/ Next

SpecClock == Init /\ [][NextClock]_vars

\* ----- properties
\* the transaction the request handled last asked for
LastTid ==
    IF last.handler = "consent" THEN last.req.transaction_state
    ELSE IF last.handler = "callback" THEN last.req.state
    ELSE Absent

LastIsStep == last.handler \in {"consent", "callback"}

\* C1: a callback whose state parameter is missing, or names a transaction that
\* is no longer live (its bundle was consumed or denied), or that repeats the
\* callback handled just before with the same state, code and request cookie,
\* is answered 400 and mints no grant.
C1_DeadCallbackFails ==
    (/\ last.handler = "callback"
     /\ \/ last.req.state = Absent
        \/ last.obs.stale
        \/ last.obs.dup)
        => /\ last.res.status = 400
           /\ last.res.grant = NoGrant

\* C2: a consent submission whose consent token is not the one stored in the
\* bundle of the submitted transaction id is rejected whatever the action is:
\* 403 when the bundle is presented, never a redirect to the provider or to the
\* client, and the provider is not contacted.
C2_TokenMismatchRejected ==
    (/\ last.handler = "consent"
     /\ LastTid \in IssuedTids
     /\ last.req.consent_token # BundleOf(LastTid).consentToken)
        => /\ last.res.status \in {400, 403}
           /\ last.obs.found => last.res.status = 403
           /\ last.res.location = NoLocation
           /\ last.res.calls = <<>>
           /\ last.res.setCookies = {}

\* a mismatching token that is the valid token of another transaction, sent with
\* the bundle and the action approve
C2_Witness ==
    /\ last.handler = "consent"
    /\ last.obs.found
    /\ last.req.consent_action = "approve"
    /\ last.req.consent_token # BundleOf(LastTid).consentToken
    /\ last.req.consent_token \in {b.consentToken : b \in IssuedBundles}
    /\ last.res.status = 403

\* C3: a callback mints a grant only from an ID token that carries the nonce
\* stored in the bundle of the callback's transaction, and the grant's claims
\* are that token's; a token with another nonce is rejected without a grant
\* even when the response, issuer and audience are valid.
C3_GrantOnlyWithStoredNonce ==
    last.handler = "callback" =>
        /\ last.res.grant # NoGrant =>
             /\ last.obs.found
             /\ last.idp.response.claims.nonce = BundleOf(LastTid).nonce
             /\ last.res.grant.claims = last.idp.response.claims
        /\ (/\ last.obs.found
            /\ last.req.code # ""
            /\ last.idp.discovery
            /\ last.idp.response.ok
            /\ last.idp.response.issAudOk
            /\ last.idp.response.id_token # ""
            /\ last.idp.response.claims.nonce # BundleOf(LastTid).nonce)
               => /\ last.res.grant = NoGrant
                  /\ last.res.status = 500

\* an otherwise valid ID token that carries the nonce of another transaction
C3_Witness ==
    /\ last.handler = "callback"
    /\ last.obs.found
    /\ last.req.code # ""
    /\ last.idp.discovery
    /\ last.idp.response.ok
    /\ last.idp.response.issAudOk
    /\ last.idp.response.id_token # ""
    /\ last.idp.response.claims.nonce # BundleOf(LastTid).nonce
    /\ last.idp.response.claims.nonce \in {b.nonce : b \in IssuedBundles}
    /\ last.res.status = 500

\* C4: once a transaction id has been invalidated, by a deny or by a callback
\* consuming it, no consent or callback for that id finds a live bundle.
C4_InvalidatedNeverResolves ==
    (LastIsStep /\ last.obs.stale) => ~last.obs.found

\* C5: of the callbacks in flight at the same time with the same state, only
\* the first handled finds a live bundle.
C5_OneCallbackFindsBundle ==
    (last.handler = "callback" /\ last.obs.raced) => ~last.obs.found

\* C6: after a consent or callback for a transaction ended in an error, no
\* consent or callback for that transaction finds a live bundle.
C6_ErrorInvalidates ==
    (LastIsStep /\ last.obs.failed) => ~last.obs.found

\* C7: a bundle older than its lifetime resolves at neither the consent nor
\* the callback step, whatever the client sends back.
C7_ExpiredNeverResolves ==
    (LastIsStep /\ last.obs.age > MaxAgeSeconds) => ~last.obs.found

\* C8: every authorize of a valid request draws a transaction id no earlier
\* authorize has produced, stores the bundle in the cookie named after that id,
\* and renders a page with exactly that id and the consent token of the stored
\* bundle, a token no earlier authorize has produced.
C8_FreshTransaction ==
    /\ Cardinality(IssuedTids) = rng \div DrawsPerAuthorize
    /\ Cardinality({b.consentToken : b \in IssuedBundles}) = rng \div DrawsPerAuthorize
    /\ (last.handler = "authorize" /\ last.req.clientId \in RegisteredClients)
          => /\ last.res.status = 200
             /\ Cardinality(last.res.setCookies) = 1
             /\ \A sc \in last.res.setCookies :
                  LET bundle == decodeCookie(sc.value)
                  IN  /\ sc.name = cookieName(bundle.transactionState)
                      /\ sc.maxAge = MaxAgeSeconds
                      /\ bundle.mcpAuthRequest = last.req
                      /\ last.res.page.transaction_state = bundle.transactionState
                      /\ last.res.page.consent_token = bundle.consentToken
                      /\ bundle.consentToken # bundle.transactionState
                      /\ JarCookies(bundle.transactionState)
                            = {[name |-> sc.name, value |-> sc.value]}

\* a second transaction has been created
C8_Witness ==
    /\ last.handler = "authorize"
    /\ last.res.status = 200
    /\ Cardinality(IssuedTids) = 2

\* C9: a deny sent with the bundle and its consent token is answered by a
\* redirect to the redirect URI stored at authorize, with error=access_denied
\* and the stored downstream state; the bundle's cookie is cleared and the
\* provider is not contacted.
C9_DenyRedirectsToClient ==
    (/\ last.handler = "consent"
     /\ last.obs.found
     /\ last.req.consent_token = BundleOf(LastTid).consentToken
     /\ last.req.consent_action = "deny")
        => /\ last.res.status = 302
           /\ last.res.location.to = "client"
           /\ last.res.location.uri = BundleOf(LastTid).mcpAuthRequest.redirectUri
           /\ last.res.location.error = "access_denied"
           /\ last.res.location.state = BundleOf(LastTid).mcpAuthRequest.state
           /\ last.res.location.state \in DownstreamStates
           /\ last.res.calls = <<>>
           /\ last.res.setCookies = {clearCookie(cookieName(LastTid))}
           /\ LastTid \in invalidated
           /\ JarCookies(LastTid) = {}

\* a deny with the matching token has been handled
C9_Witness ==
    /\ last.handler = "consent"
    /\ last.obs.found
    /\ last.req.consent_token = BundleOf(LastTid).consentToken
    /\ last.req.consent_action = "deny"
    /\ last.res.status = 302

\* C10: for each transaction id completeAuthorization is called at most once.
C10_OneGrantPerTransaction ==
    \A t \in RandomValues : Cardinality(granted[t]) <= 1

\* ----- token exchanges of one grant
GrantTypes == {"authorization_code", "refresh_token", "client_credentials"}

\* expires_in of a token response; absent when the provider leaves it out
Lifetimes == {Absent, 3600, 7200}

\* the property bag callback hands to completeAuthorization
InitialProps ==
    {[claims |-> c,
      tokenSet |-> [accessToken |-> "at", accessTokenTTL |-> ttl, idToken |-> "idt",
                    refreshToken |-> rt]] :
        c \in IdTokenClaims({generateRandom(0, 4)}), ttl \in Lifetimes, rt \in {"", "rt"}}

\* the claims of the ID token of a refresh response
RefreshedClaims ==
    {[sub |-> "auth0|u1", name |-> "Ann B.", email |-> "ann.b@x.example", nonce |-> Absent]}

\* the token endpoint's answer to a refresh: an error, or a token set without an
\* ID token, with one that does not validate, or with a valid one; with or
\* without a new refresh token
RefreshResponses ==
    {ErrorResponse}
        \cup {[GoodResponse EXCEPT !.access_token = at, !.expires_in = ttl,
                                   !.refresh_token = rt] :
                at \in {"at2", "at3"}, ttl \in Lifetimes, rt \in {"", "rt2"}}
        \cup {[GoodResponse EXCEPT !.access_token = at, !.expires_in = ttl,
                                   !.refresh_token = rt, !.id_token = "idt2",
                                   !.issAudOk = ok, !.claims = c] :
                at \in {"at2", "at3"}, ttl \in Lifetimes, rt \in {"", "rt2"},
                ok \in BOOLEAN, c \in RefreshedClaims}

\* the provider is contacted on a refresh_token grant only
RefreshBehaviours(grantType) ==
    IF grantType = "refresh_token"
    THEN {[discovery |-> FALSE, response |-> ErrorResponse]}
            \cup [discovery : {TRUE}, response : RefreshResponses]
    ELSE {NoIdp}

\* the property bag the grant holds: the one the last exchange returned, or
\* else the one it was called with
CurrentProps ==
    IF last.handler # "tokenExchange" THEN InitialProps
    ELSE IF last.res.outcome = "returned" THEN {last.res.newProps}
    ELSE {last.req.props}

\* the downstream token endpoint calls tokenExchangeCallback
TokenExchange ==
    /\ \E props \in CurrentProps, grantType \in GrantTypes :
         \E idp \in RefreshBehaviours(grantType) :
            LET options == [grantType |-> grantType, props |-> props]
            IN  last' = [handler |-> "tokenExchange", req |-> options, idp |-> idp,
                         obs |-> NoObs, res |-> tokenExchangeCallback(options, idp)]
    /\ UNCHANGED <<scripts, rng, now, issued, jar, net, nreq, invalidated, errored, granted,
                   waiting>>

NextExchange == TokenExchange

SpecExchange == Init /\ [][NextExchange]_vars

LastIsRefresh ==
    /\ last.handler = "tokenExchange"
    /\ last.req.grantType = "refresh_token"

\* ----- completed flows, with the variety of requests and ID tokens
GrantScopes == {"openid profile", "openid"}

ScopedAuthRequests ==
    [clientId : RegisteredClients, redirectUri : RedirectUris, scope : GrantScopes,
     state : DownstreamStates]

\* ID tokens with and without the optional name and email claims
NamedClaims(nonces) ==
    {[sub |-> "auth0|u1", name |-> n, email |-> e, nonce |-> k] :
        n \in {"", "Ann"}, e \in {"", "ann@x.example"}, k \in nonces}

\* token sets with an ID token, with or without refresh token
NamedResponses(nonces) ==
    {ErrorResponse}
        \cup {[GoodResponse EXCEPT !.id_token = "idt", !.claims = c,
                                   !.refresh_token = rt] :
                c \in NamedClaims(nonces), rt \in {"", "rt"}}

\* a callback with a code the provider has not redeemed for a grant, answered
\* with an error or with an ID token for the nonce of the callback's transaction
NamedCallbackInputs(r) ==
    UNION {{[req |-> [state |-> r.tx, code |-> code, error |-> FALSE,
                      cookies |-> r.cookies],
             idp |-> [discovery |-> TRUE, response |-> response]] :
                response \in {x \in NamedResponses({BundleOf(r.tx).nonce}) :
                                x.ok => \A t \in RandomValues : code \notin granted[t]}} :
           code \in Codes}

\* GET /authorize of a registered client
GrantAuthorize ==
    \E req \in ScopedAuthRequests :
        LET res == authorize(req, rng)
        IN  /\ rng + res.draws <= DrawsPerAuthorize * MaxAuth
            /\ rng' = rng + res.draws
            /\ issued' = issued \cup
                   {[name |-> sc.name, value |-> sc.value, at |-> now] : sc \in res.setCookies}
            /\ jar' = Store(res.setCookies)
            /\ last' = [handler |-> "authorize", req |-> req, idp |-> NoIdp, obs |-> NoObs,
                        res |-> res]
            /\ UNCHANGED <<scripts, now, net, nreq, invalidated, errored, granted, waiting>>

\* GET /callback reaches the handler
GrantCallback ==
    \E r \in {q \in net : q.kind = "callback"} :
        \E i \in NamedCallbackInputs(r) :
            Handled(r, i.req.state, i.req, i.idp, callback(i.req, i.idp))

NextGrant ==
    \/ GrantAuthorize
    \/ SendCallback
    \/ GrantCallback

SpecGrant == Init /\ [][NextGrant]_vars

\* C11: an authorize whose request has no client id, or a client id that is
\* not registered, is answered 400 and creates no session: the response sets
\* no cookie, renders no page and draws no random value; no bundle exists for
\* such a request, neither issued nor in the user agent's jar, and every random
\* value drawn belongs to an issued bundle.
C11_NoSessionOnInvalidRequest ==
    /\ (last.handler = "authorize" /\ last.req.clientId \notin RegisteredClients)
          => /\ last.res.status = 400
             /\ last.res.text = (IF last.req.clientId = "" THEN "Invalid request"
                                 ELSE "Invalid client")
             /\ last.res.setCookies = {}
             /\ last.res.page = NoPage
             /\ last.res.draws = 0
    /\ \A b \in IssuedBundles : b.mcpAuthRequest.clientId \in RegisteredClients
    /\ \A ck \in jar : decodeCookie(ck.value).mcpAuthRequest.clientId \in RegisteredClients
    /\ rng = DrawsPerAuthorize * Cardinality(issued)

\* an unknown client has been refused after a session of another request exists
C11_Witness ==
    /\ last.handler = "authorize"
    /\ last.req.clientId = "nobody"
    /\ last.res.status = 400
    /\ Cardinality(issued) = 1
    /\ rng = DrawsPerAuthorize

\* C12: an approve with the matching consent token, when discovery succeeds,
\* redirects to the provider with state equal to the transaction id, the S256
\* challenge of the verifier stored for that transaction, the stored nonce and
\* response_type=code.
C12_UpstreamRedirectParams ==
    (/\ last.handler = "consent"
     /\ last.obs.found
     /\ last.req.consent_token = BundleOf(LastTid).consentToken
     /\ last.req.consent_action = "approve"
     /\ last.idp.discovery)
        => /\ last.res.status = 302
           /\ last.res.location.to = "idp"
           /\ last.res.location.state = LastTid
           /\ last.res.location.code_challenge
                 = calculatePKCECodeChallenge(BundleOf(LastTid).codeVerifier)
           /\ last.res.location.code_challenge_method = "S256"
           /\ last.res.location.nonce = BundleOf(LastTid).nonce
           /\ last.res.location.response_type = "code"
           /\ last.res.location.error = ""

\* the second transaction has been approved
C12_Witness ==
    /\ last.handler = "consent"
    /\ last.obs.found
    /\ last.req.consent_token = BundleOf(LastTid).consentToken
    /\ last.req.consent_action = "approve"
    /\ last.idp.discovery
    /\ last.res.status = 302
    /\ LastTid = generateRandom(DrawsPerAuthorize, 2)

\* C13: a callback with state T that brings the bundle of T, with discovery,
\* code exchange and ID-token validation succeeding, redirects to the
\* completion URL with a grant; and once T has been completed, a further
\* callback for T finds no live bundle.
C13_CompletedThenInvalid ==
    last.handler = "callback" =>
        /\ (/\ last.obs.found
            /\ last.req.code # ""
            /\ ~last.req.error
            /\ last.idp.discovery
            /\ last.idp.response.ok
            /\ last.idp.response.issAudOk
            /\ last.idp.response.id_token # ""
            /\ last.idp.response.claims.nonce = BundleOf(LastTid).nonce)
               => /\ last.res.status = 302
                  /\ last.res.location.to = "completion"
                  /\ last.res.grant # NoGrant
                  /\ LastTid \in invalidated
        /\ (LastTid # Absent /\ granted[LastTid] \ {last.req.code} # {})
               => ~last.obs.found

\* C14: on an authorization_code grant tokenExchangeCallback returns as
\* accessTokenTTL the accessTokenTTL of the token set in the property bag it is
\* called with, returns that bag unchanged and contacts nobody.
C14_CodeGrantKeepsLifetime ==
    (last.handler = "tokenExchange" /\ last.req.grantType = "authorization_code")
        => /\ last.res.outcome = "returned"
           /\ last.res.accessTokenTTL = last.req.props.tokenSet.accessTokenTTL
           /\ last.res.newProps = last.req.props
           /\ last.res.calls = <<>>

\* an authorization_code exchange on a bag whose lifetime a refresh has set
C14_Witness ==
    /\ last.handler = "tokenExchange"
    /\ last.req.grantType = "authorization_code"
    /\ last.req.props.tokenSet.accessToken = "at3"
    /\ last.res.accessTokenTTL = 7200

\* C15: a refresh_token grant whose property bag holds no refresh token throws,
\* returns no property bag and makes no request, neither discovery nor refresh.
C15_NoRefreshTokenIsFatal ==
    (LastIsRefresh /\ last.req.props.tokenSet.refreshToken = "")
        => /\ last.res.outcome = "thrown"
           /\ last.res.error = "No Auth0 refresh token found"
           /\ last.res.newProps = NoProps
           /\ last.res.calls = <<>>

\* such a refresh while the provider would have answered with a valid token set
C15_Witness ==
    /\ LastIsRefresh
    /\ last.req.props.tokenSet.refreshToken = ""
    /\ last.idp.discovery
    /\ last.idp.response.ok
    /\ last.idp.response.id_token # ""
    /\ last.idp.response.issAudOk
    /\ last.res.outcome = "thrown"

\* C16: the property bag a refresh returns holds the claims, access token, ID
\* token and lifetime of one and the same refresh response; and a refresh
\* response without an ID token makes the call throw without a property bag.
C16_RefreshReplacesAtomically ==
    LastIsRefresh =>
        /\ last.res.outcome = "returned" =>
             /\ last.idp.response.ok
             /\ last.res.newProps.claims = last.idp.response.claims
             /\ last.res.newProps.claims # NoClaims
             /\ last.res.newProps.tokenSet.accessToken = last.idp.response.access_token
             /\ last.res.newProps.tokenSet.idToken = last.idp.response.id_token
             /\ last.res.newProps.tokenSet.accessTokenTTL = last.idp.response.expires_in
        /\ (last.idp.response.id_token = "" \/ ~last.idp.response.issAudOk)
             => /\ last.res.outcome = "thrown"
                /\ last.res.newProps = NoProps

\* a refresh that replaced both the claims and the access token
C16_Witness ==
    /\ LastIsRefresh
    /\ last.res.outcome = "returned"
    /\ last.res.newProps.claims # last.req.props.claims
    /\ last.res.newProps.tokenSet.accessToken # last.req.props.tokenSet.accessToken
    /\ last.res.newProps.tokenSet.idToken # last.req.props.tokenSet.idToken

\* C17: the refresh token of the property bag a refresh returns is the one of
\* the refresh response when there is one, and else the prior one; it is never
\* empty.
C17_RefreshTokenKept ==
    (LastIsRefresh /\ last.res.outcome = "returned")
        => /\ last.res.newProps.tokenSet.refreshToken
                 = (IF last.idp.response.refresh_token # ""
                    THEN last.idp.response.refresh_token
                    ELSE last.req.props.tokenSet.refreshToken)
           /\ last.res.newProps.tokenSet.refreshToken # ""

\* a refresh whose response brought no refresh token
C17_Witness ==
    /\ LastIsRefresh
    /\ last.res.outcome = "returned"
    /\ last.idp.response.refresh_token = ""
    /\ last.res.newProps.tokenSet.refreshToken = "rt"

\* C18: the accessTokenTTL a refresh returns is the expires_in of the refresh
\* response, and is the accessTokenTTL recorded in the returned property bag.
C18_RefreshLifetimeAligned ==
    (LastIsRefresh /\ last.res.outcome = "returned")
        => /\ last.res.accessTokenTTL = last.idp.response.expires_in
           /\ last.res.accessTokenTTL = last.res.newProps.tokenSet.accessTokenTTL

\* a refresh whose response has another lifetime than the prior token set
C18_Witness ==
    /\ LastIsRefresh
    /\ last.res.outcome = "returned"
    /\ last.idp.response.expires_in = 7200
    /\ last.req.props.tokenSet.accessTokenTTL = 3600

\* C19: when discovery fails or the provider rejects the refresh grant, the
\* call throws, returns no property bag, and has made one discovery request
\* and at most one refresh request.
C19_RejectedRefreshIsFatal ==
    (/\ LastIsRefresh
     /\ last.req.props.tokenSet.refreshToken # ""
     /\ (~last.idp.discovery \/ ~last.idp.response.ok))
        => /\ last.res.outcome = "thrown"
           /\ last.res.newProps = NoProps
           /\ last.res.accessTokenTTL = Absent
           /\ last.res.calls = (IF last.idp.discovery THEN <<"discovery", "refresh">>
                                ELSE <<"discovery">>)

\* the provider has rejected a refresh grant after a successful discovery
C19_Witness ==
    /\ LastIsRefresh
    /\ last.req.props.tokenSet.refreshToken # ""
    /\ last.idp.discovery
    /\ ~last.idp.response.ok
    /\ last.res.outcome = "thrown"

\* C20: the grant a successful callback hands to completeAuthorization has the
\* subject of the validated ID token as userId, the name claim or else the
\* email claim or else the subject as label, the request and the scope stored
\* at authorize, and as props the validated claims and the token set of the
\* code-exchange response.
C20_GrantContents ==
    (last.handler = "callback" /\ last.res.grant # NoGrant)
        => /\ last.res.status = 302
           /\ last.res.location.to = "completion"
           /\ last.res.grant.userId = last.idp.response.claims.sub
           /\ last.res.grant.label
                 = (IF last.idp.response.claims.name # "" THEN last.idp.response.claims.name
                    ELSE IF last.idp.response.claims.email # ""
                         THEN last.idp.response.claims.email
                    ELSE last.idp.response.claims.sub)
           /\ last.res.grant.scope = BundleOf(LastTid).mcpAuthRequest.scope
           /\ last.res.grant.request = BundleOf(LastTid).mcpAuthRequest
           /\ last.res.grant.claims = last.idp.response.claims
           /\ last.res.grant.tokenSet
                 = [accessToken |-> last.idp.response.access_token,
                    accessTokenTTL |-> last.idp.response.expires_in,
                    idToken |-> last.idp.response.id_token,
                    refreshToken |-> last.idp.response.refresh_token]

\* a grant from an ID token without name, for the second transaction, whose
\* scope is not the first one's
C20_Witness ==
    /\ last.handler = "callback"
    /\ last.res.grant # NoGrant
    /\ last.idp.response.claims.name = ""
    /\ last.res.grant.label = "ann@x.example"
    /\ LastTid = generateRandom(DrawsPerAuthorize, 2)
    /\ last.res.grant.scope # BundleOf(generateRandom(0, 2)).mcpAuthRequest.scope

\* C21: every callback ends either in a redirect to the completion URL or in
\* a 400 with a plain-text error, the failures of discovery, response
\* validation, code exchange and ID-token validation included.
C21_CallbackOutcomes ==
    last.handler = "callback" =>
        \/ /\ last.res.status = 302
           /\ last.res.location.to = "completion"
        \/ /\ last.res.status = 400
           /\ last.res.text # ""
           /\ last.res.location = NoLocation

\* C22: a consent submission without transaction id, or whose request brings no
\* bundle for its transaction id, is answered 400 without a redirect, without a
\* cookie and without a request to the provider.
C22_ConsentWithoutTransaction ==
    (last.handler = "consent" /\ ~last.obs.found)
        => /\ last.res.status = 400
           /\ last.res.text = (IF LastTid = Absent THEN "Invalid transaction state"
                               ELSE "Invalid or expired transaction")
           /\ last.res.location = NoLocation
           /\ last.res.setCookies = {}
           /\ last.res.calls = <<>>
           /\ last.res.grant = NoGrant

\* an approve with the right token for a transaction whose bundle the request
\* does not bring
C22_Witness ==
    /\ last.handler = "consent"
    /\ ~last.obs.found
    /\ LastTid \in IssuedTids
    /\ last.req.consent_action = "approve"
    /\ last.req.consent_token = BundleOf(LastTid).consentToken
    /\ last.res.status = 400

\* C23: the cookies that the response to a consent or callback for transaction
\* T sets or clears are named after T and no other transaction, whatever the
\* outcome; so the bundle of a transaction leaves the user agent's jar only
\* when a request for that very transaction cleared it, or when it expired.
C23_OtherTransactionsUntouched ==
    /\ LastIsStep =>
          /\ \A sc \in last.res.setCookies :
                LastTid # Absent /\ sc.name = cookieName(LastTid)
          /\ Cleared(last.res) \subseteq {LastTid}
    /\ \A t \in IssuedTids :
          (t \notin invalidated /\ now < IssuedAt(t) + MaxAgeSeconds)
              => JarCookies(t) = KeptCookies(t)

\* the first transaction has been denied or consumed while the user agent holds
\* the bundle of the second
C23_Witness ==
    /\ LastIsStep
    /\ LastTid = generateRandom(0, 2)
    /\ Cleared(last.res) = {LastTid}
    /\ JarCookies(LastTid) = {}
    /\ JarCookies(generateRandom(DrawsPerAuthorize, 2)) # {}

\* ----- the session cookie's attributes, by environment
\* c.env.NODE_ENV: the two values the process file sets, and the variable unset
NodeEnvs == {"development", "production", ""}

\* the cookie options, were the cookie secure in production only
cookieOptionsProductionOnly(NODE_ENV) ==
    [httpOnly |-> TRUE,
     maxAge |-> 60 * 60 * 1,
     path |-> "/",
     sameSite |-> IF NODE_ENV = "production" THEN "none" ELSE "lax",
     secure |-> NODE_ENV = "production"]

\* the options authorize passes to setCookie
cookieOptions(NODE_ENV) ==
    [httpOnly |-> TRUE,
     maxAge |-> 60 * 60 * 1,
     path |-> "/",
     sameSite |-> IF NODE_ENV # "development" THEN "none" ELSE "lax",
     secure |-> NODE_ENV # "development"]

\* setCookie(c, name, value, options): the Set-Cookie header with its attributes
setCookie(name, value, options) ==
    [name |-> name, value |-> value, maxAge |-> options.maxAge,
     httpOnly |-> options.httpOnly, path |-> options.path,
     sameSite |-> options.sameSite, secure |-> options.secure]

\* authorize in the environment env: its response with the attributes of the
\* cookie it sets
authorizeIn(env, req, r) ==
    LET res == authorize(req, r)
    IN  [res EXCEPT !.setCookies =
            {setCookie(sc.name, sc.value, cookieOptions(env.NODE_ENV)) : sc \in @}]

\* GET /authorize of a registered client in some environment
CookieAuthorize ==
    \E req \in AuthRequests, e \in NodeEnvs :
        LET env == [NODE_ENV |-> e]
            res == authorizeIn(env, req, rng)
        IN  /\ rng + res.draws <= DrawsPerAuthorize * MaxAuth
            /\ rng' = rng + res.draws
            /\ issued' = issued \cup
                   {[name |-> sc.name, value |-> sc.value, at |-> now] : sc \in res.setCookies}
            /\ jar' = Store(res.setCookies)
            /\ last' = [handler |-> "authorize", req |-> req, idp |-> NoIdp, obs |-> NoObs,
                        res |-> res, env |-> env]
            /\ UNCHANGED <<scripts, now, net, nreq, invalidated, errored, granted, waiting>>

\* a consent form with the token of its transaction, approving or denying
DecisionInputs(r) ==
    {[req |-> [transaction_state |-> r.tx,
               consent_token |-> BundleOf(r.tx).consentToken,
               consent_action |-> act, cookies |-> r.cookies],
      idp |-> NoIdp] : act \in {"approve", "deny"}}

\* POST /authorize/consent reaches the handler
CookieConsent ==
    \E r \in {q \in net : q.kind = "consent"} :
        \E i \in DecisionInputs(r) :
            Handled(r, i.req.transaction_state, i.req, i.idp, confirmConsent(i.req, i.idp))

\* a callback with a code, while discovery fails, the code is rejected, or the
\* provider answers with an ID token for the nonce of the callback's transaction
CodeInputs(r) ==
    {[req |-> [state |-> r.tx, code |-> code, error |-> FALSE, cookies |-> r.cookies],
      idp |-> idp] :
        code \in Codes,
        idp \in {[discovery |-> FALSE, response |-> ErrorResponse]}
                  \cup [discovery : {TRUE},
                        response : {ErrorResponse}
                            \cup {[GoodResponse EXCEPT !.id_token = "idt", !.claims = c] :
                                    c \in IdTokenClaims({BundleOf(r.tx).nonce})}]}

\* GET /callback reaches the handler
CookieCallback ==
    \E r \in {q \in net : q.kind = "callback"} :
        \E i \in CodeInputs(r) :
            Handled(r, i.req.state, i.req, i.idp, callback(i.req, i.idp))

NextCookie ==
    \/ CookieAuthorize
    \/ SendConsent
    \/ SendCallback
    \/ CookieConsent
    \/ CookieCallback

SpecCookie == Init /\ [][NextCookie]_vars

C25_GrantOnlyAfterApproval ==
    (last.handler = "callback" /\ last.res.grant # NoGrant) => nreq > 1

\* C26: consent consumes the bundle it reads, so a transaction is redirected
\* upstream at most once: an approve that repeats, with the same transaction id
\* and token, the approve handled just before it, which found the bundle and
\* was redirected upstream, is not redirected upstream again.
C26_OneUpstreamRedirect ==
    (/\ last.handler = "consent"
     /\ last.obs.dup
     /\ ~last.obs.failed
     /\ ~last.obs.stale
     /\ last.req.consent_action = "approve"
     /\ last.req.consent_token = BundleOf(LastTid).consentToken)
        => last.res.location.to # "idp"

\* C27: an approve for T leaves the bundle it read with the user agent, so that
\* the callback for T finds it; and the code exchange of a callback for T sends
\* the code verifier authorize generated for T, whose challenge the upstream
\* redirect carried, and expects the nonce authorize generated for T in the ID
\* token.
C27_VerifierAndNonceOfTransaction ==
    /\ (last.handler = "consent" /\ last.res.location.to = "idp")
          => /\ last.res.setCookies = {}
             /\ last.res.location.code_challenge = BundleOf(LastTid).codeChallenge
             /\ last.res.location.nonce = BundleOf(LastTid).nonce
             /\ (~last.obs.stale => JarCookies(LastTid) = last.req.cookies)
    /\ (last.handler = "callback" /\ last.res.codeGrantRequest # NoCodeGrantRequest)
          => /\ last.obs.found
             /\ last.res.codeGrantRequest.code = last.req.code
             /\ last.res.codeGrantRequest.code_verifier = BundleOf(LastTid).codeVerifier
             /\ calculatePKCECodeChallenge(last.res.codeGrantRequest.code_verifier)
                   = BundleOf(LastTid).codeChallenge
             /\ last.res.expectedNonce = BundleOf(LastTid).nonce
    /\ (last.handler = "callback" /\ last.res.grant # NoGrant)
          => last.res.codeGrantRequest # NoCodeGrantRequest

\* a callback for the second transaction, after some other request, has sent
\* its code exchange and minted a grant
C27_Witness ==
    /\ last.handler = "callback"
    /\ LastTid = generateRandom(DrawsPerAuthorize, 2)
    /\ nreq > 1
    /\ last.res.grant # NoGrant
    /\ last.res.codeGrantRequest.code_verifier = generateRandom(DrawsPerAuthorize, 1)

\* C28: a callback that loaded a bundle invalidates the transaction before it
\* contacts the provider: whatever its result, its response clears the cookie,
\* and the transaction is no longer live afterwards, so that the same callback
\* handled once more does not find the bundle.
C28_CallbackInvalidatesFirst ==
    /\ (last.handler = "callback" /\ last.obs.found)
          => /\ last.res.setCookies = {clearCookie(cookieName(LastTid))}
             /\ LastTid \in invalidated
             /\ JarCookies(LastTid) = {}
    /\ (last.handler = "callback" /\ last.obs.dup) => ~last.obs.found

\* ----- a client that rewrites the cookie it holds
\* The cookie value is btoa(JSON.stringify(bundle)), neither signed nor
\* encrypted: its holder can decode it, change the downstream request in it and
\* encode it again, keeping the verifier and nonce.
AlteredRequests ==
    [clientId : RegisteredClients, redirectUri : RedirectUris,
     scope : {"openid profile admin"}, state : DownstreamStates]
        \cup [clientId : {"nobody"}, redirectUri : {"https://other.example/cb"},
              scope : Scopes, state : DownstreamStates]

\* the provider's redirect is followed with a rewritten cookie
SendAltered ==
    /\ nreq < MaxReq
    /\ \E t \in IssuedTids, m \in AlteredRequests :
          net' = net \cup
                   {[id |-> FreeId, kind |-> "callback", tx |-> t,
                     cookies |-> {[name |-> cookieName(t),
                                   value |-> encodeCookie([BundleOf(t) EXCEPT
                                                             !.mcpAuthRequest = m])]}]}
    /\ nreq' = nreq + 1
    /\ UNCHANGED <<scripts, rng, now, issued, jar, last, invalidated, errored, granted, waiting>>

NextAltered ==
    \/ Authorize
    \/ SendCallback
    \/ SendAltered
    \/ CookieCallback

SpecAltered == Init /\ [][NextAltered]_vars

\* C29: the downstream request a callback for T hands to completeAuthorization
\* is the request authorize validated and stored for T; nobody but the broker
\* changes the stored bundle between authorize and callback.
C29_StoredRequestHandedOn ==
    (last.handler = "callback" /\ last.res.grant # NoGrant)
        => /\ last.res.grant.request = BundleOf(LastTid).mcpAuthRequest
           /\ last.res.grant.request.clientId \in RegisteredClients
           /\ last.res.location.uri = BundleOf(LastTid).mcpAuthRequest.redirectUri

\* ----- a flow from authorize to the refreshes of its grant
\* the property bag callback hands to completeAuthorization with the grant
GrantProps(grant) == [claims |-> grant.claims, tokenSet |-> grant.tokenSet]

\* the provider while a grant is refreshed: discovery fails, the refresh is
\* rejected, or it is answered without or with an ID token
FlowRefreshBehaviours(grantType) ==
    IF grantType = "refresh_token"
    THEN {[discovery |-> FALSE, response |-> ErrorResponse]}
            \cup [discovery : {TRUE},
                  response : {ErrorResponse,
                              [GoodResponse EXCEPT !.access_token = "at2",
                                                   !.refresh_token = "rt2"]}
                      \cup {[GoodResponse EXCEPT !.access_token = "at2",
                                                 !.refresh_token = "rt2",
                                                 !.id_token = "idt2", !.claims = c] :
                              c \in RefreshedClaims}]
    ELSE {NoIdp}

\* an approve with the token of its transaction, while discovery succeeds or
\* fails
ApproveInputs(r) ==
    {[req |-> [transaction_state |-> r.tx,
               consent_token |-> BundleOf(r.tx).consentToken,
               consent_action |-> "approve", cookies |-> r.cookies],
      idp |-> [NoIdp EXCEPT !.discovery = disc]] : disc \in BOOLEAN}

\* POST /authorize/consent reaches the handler
FlowConsent ==
    \E r \in {q \in net : q.kind = "consent"} :
        \E i \in ApproveInputs(r) :
            Handled(r, i.req.transaction_state, i.req, i.idp, confirmConsent(i.req, i.idp))

\* the downstream token endpoint calls tokenExchangeCallback for the grant that
\* the callback handled last has minted, and again for what that call returned
FlowExchange ==
    /\ \/ last.handler = "callback" /\ last.res.grant # NoGrant
       \/ last.handler = "tokenExchange"
    /\ \E props \in (IF last.handler = "callback" THEN {GrantProps(last.res.grant)}
                     ELSE CurrentProps),
          grantType \in GrantTypes :
         \E idp \in FlowRefreshBehaviours(grantType) :
            LET options == [grantType |-> grantType, props |-> props]
            IN  last' = [handler |-> "tokenExchange", req |-> options, idp |-> idp,
                         obs |-> NoObs, res |-> tokenExchangeCallback(options, idp)]
    /\ UNCHANGED <<scripts, rng, now, issued, jar, net, nreq, invalidated, errored, granted,
                   waiting>>

NextFlow ==
    \/ Authorize
    \/ SendConsent
    \/ SendCallback
    \/ FlowConsent
    \/ CookieCallback
    \/ FlowExchange

SpecFlow == Init /\ [][NextFlow]_vars

\* how often the handler handled last has made the request named call
Calls(call) ==
    Cardinality({i \in DOMAIN last.res.calls : last.res.calls[i] = call})

\* C30: no handler retries. An invocation of consent, callback or
\* tokenExchangeCallback makes each request to the provider (discovery, code
\* exchange, refresh) at most once, and a request that fails is the last one of
\* the invocation, which ends with an error.
C30_NoRetry ==
    /\ last.handler \in {"consent", "callback", "tokenExchange"}
          => /\ \A call \in {"discovery", "code_exchange", "refresh"} : Calls(call) <= 1
             /\ Len(last.res.calls) <= 2
    /\ (last.handler \in {"consent", "callback"} /\ last.res.calls # <<>>
            /\ ~last.idp.discovery)
          => /\ last.res.calls = <<"discovery">>
             /\ last.res.status = 500
             /\ last.res.location = NoLocation
             /\ last.res.grant = NoGrant
    /\ (last.handler = "callback" /\ Calls("code_exchange") = 1 /\ ~last.idp.response.ok)
          => /\ last.res.calls = <<"discovery", "code_exchange">>
             /\ last.res.status = 500
             /\ last.res.location = NoLocation
             /\ last.res.grant = NoGrant
    /\ (last.handler = "tokenExchange" /\ last.res.calls # <<>> /\ ~last.idp.discovery)
          => /\ last.res.calls = <<"discovery">>
             /\ last.res.outcome = "thrown"
    /\ (last.handler = "tokenExchange" /\ Calls("refresh") = 1 /\ ~last.idp.response.ok)
          => /\ last.res.calls = <<"discovery", "refresh">>
             /\ last.res.outcome = "thrown"

\* the refresh of a grant that a callback minted is rejected by the provider
C30_Witness ==
    /\ last.handler = "tokenExchange"
    /\ \E t \in RandomValues : granted[t] # {}
    /\ last.idp.discovery
    /\ ~last.idp.response.ok
    /\ last.res.calls = <<"discovery", "refresh">>
    /\ last.res.outcome = "thrown"

\* C31: with the bundle and its consent token, a consent is redirected to the
\* provider only when consent_action is exactly "approve"; any other value, an
\* absent or unknown one included, is a denial: the cookie is cleared and the
\* redirect goes to the downstream client with error=access_denied, without a
\* request to the provider.
C31_OnlyApproveGoesUpstream ==
    (/\ last.handler = "consent"
     /\ last.obs.found
     /\ last.req.consent_token = BundleOf(LastTid).consentToken)
        => /\ (last.res.location.to = "idp") => (last.req.consent_action = "approve")
           /\ (last.req.consent_action # "approve")
                 => /\ last.res.status = 302
                    /\ last.res.location.to = "client"
                    /\ last.res.location.error = "access_denied"
                    /\ last.res.location.code_challenge = NoLocation.code_challenge
                    /\ last.res.calls = <<>>
                    /\ Cleared(last.res) = {LastTid}
                    /\ JarCookies(LastTid) = {}

\* a consent with the right token and no consent_action at all has been denied
C31_Witness ==
    /\ last.handler = "consent"
    /\ last.obs.found
    /\ last.req.consent_token = BundleOf(LastTid).consentToken
    /\ last.req.consent_action = ""
    /\ last.res.location.to = "client"

\* C32: on an authorization_code grant tokenExchangeCallback hands back the
\* property bag it received, claims and token set field by field, whether or
\* not the bag holds a refresh token or a lifetime, and makes no request to the
\* provider whatever the provider would answer.
C32_CodeGrantKeepsProps ==
    (last.handler = "tokenExchange" /\ last.req.grantType = "authorization_code")
        => /\ last.res.outcome = "returned"
           /\ last.res.error = ""
           /\ last.res.newProps.claims = last.req.props.claims
           /\ last.res.newProps.tokenSet.accessToken = last.req.props.tokenSet.accessToken
           /\ last.res.newProps.tokenSet.idToken = last.req.props.tokenSet.idToken
           /\ last.res.newProps.tokenSet.refreshToken = last.req.props.tokenSet.refreshToken
           /\ last.res.newProps.tokenSet.accessTokenTTL
                 = last.req.props.tokenSet.accessTokenTTL
           /\ Len(last.res.calls) = 0

\* the exchange of a grant whose bag holds neither refresh token nor lifetime
C32_Witness ==
    /\ last.handler = "tokenExchange"
    /\ last.req.grantType = "authorization_code"
    /\ last.req.props.tokenSet.refreshToken = ""
    /\ last.req.props.tokenSet.accessTokenTTL = Absent
    /\ last.req.props.claims # NoClaims
    /\ last.res.newProps = last.req.props

\* ----- the tunnel scripts at work
\* the SSHTunnel object and the runtime around it
Scripts == [tunnel |-> tunnel, node |-> node]

Becomes(st) ==
    /\ tunnel' = st.tunnel
    /\ node' = st.node

\* process.exit has not been called
Alive == node.exitStatus = Running

\* what the health request of a probe ends in
ProbeOutcomes == {"ok", "status", "error"}

\* ssh-tunnel.js run as a script: new SSHTunnel(config); tunnel.start()
TunnelMain ==
    /\ Alive
    /\ node.children = <<>>
    /\ client.pc = "idle"
    /\ Becomes(start(Scripts))
    /\ UNCHANGED <<broker, client>>

\* A child ends: by itself with a code, or with code null after kill() has
\* signalled it. Its exit handler runs.
ChildExit ==
    /\ Alive
    /\ \E pid \in DOMAIN node.children :
        /\ node.children[pid].state = "running"
        /\ \E code \in (IF node.children[pid].killed THEN {nullCode} ELSE ExitCodes) :
              Becomes(onExit([Scripts EXCEPT
                                 !.node.children[pid].state = "exited",
                                 !.node.children[pid].code = code],
                             pid, code))
    /\ UNCHANGED <<broker, client>>

\* the timer set two seconds ago by start() is due
EstablishedTimer ==
    /\ Alive
    /\ \E tm \in node.timers :
        /\ tm.kind = "established"
        /\ tm.remaining = 0
        /\ Becomes(onEstablished([Scripts EXCEPT !.node.timers = @ \ {tm}]))
    /\ UNCHANGED <<broker, client>>

\* the reconnection timer set by an exit handler is due: this.start()
ReconnectTimer ==
    /\ Alive
    /\ Len(node.children) < MaxSpawns
    /\ \E tm \in node.timers :
        /\ tm.kind = "reconnect"
        /\ tm.remaining = 0
        /\ Becomes(start([Scripts EXCEPT !.node.timers = @ \ {tm}]))
    /\ UNCHANGED <<broker, client>>

\* time passes while no timer is due
Advance ==
    /\ Alive
    /\ node.timers # {}
    /\ \A tm \in node.timers : tm.remaining > 0
    /\ node' = [node EXCEPT
                   !.timers = {[tm EXCEPT !.remaining = @ - TickMs] : tm \in @}]
    /\ UNCHANGED <<broker, tunnel, client>>

\* a holder of the tunnel object calls stop(), once
Stop ==
    /\ Alive
    /\ node.children # <<>>
    /\ ~node.stopCalled
    /\ Becomes(stop(Scripts))
    /\ UNCHANGED <<broker, client>>

\* SIGINT or SIGTERM: the script's handler calls stop() and process.exit(0)
Shutdown ==
    /\ Alive
    /\ Becomes([stop(Scripts) EXCEPT !.node.exitStatus = 0])
    /\ UNCHANGED <<broker, client>>

NextTunnel ==
    \/ TunnelMain
    \/ ChildExit
    \/ EstablishedTimer
    \/ ReconnectTimer
    \/ Advance
    \/ Stop
    \/ Shutdown

SpecTunnel == Init /\ [][NextTunnel]_vars

\* C33: the supervisor gives up. While no ssh process has ever been found
\* running by its two-second timer and every exit had a non-zero code, the
\* first process and maxReconnectAttempts reconnections are all there is: no
\* further ssh process is spawned.
C33_SupervisorGivesUp ==
    (/\ ~node.stopCalled
     /\ node.established # "running"
     /\ \A pid \in DOMAIN node.children : node.children[pid].code # 0)
        => Len(node.children) <= maxReconnectAttempts + 1

\* C34: reconnectAttempts stays within 0..maxReconnectAttempts; a reconnection
\* is pending only for a child that exited with a non-zero code; and the
\* counter is reset to 0 only by a two-second timer that found the current ssh
\* process still running.
C34_ReconnectCounter ==
    /\ tunnel.reconnectAttempts \in 0..maxReconnectAttempts
    /\ \A tm \in node.timers :
          tm.kind = "reconnect"
              => /\ node.children[tm.pid].state = "exited"
                 /\ node.children[tm.pid].code # 0
    /\ node.established \in {"never", "running"}

\* C35: once stop() has been called no ssh process is spawned any more, neither
\* by the exit of the killed process nor by a reconnection timer that was
\* pending when stop() was called.
C35_NoSpawnAfterStop ==
    \A pid \in DOMAIN node.children : ~node.children[pid].afterStop

\* ----- claude-client.js
\* ClaudeMCPClient.start(): new SSHTunnel(config), tunnel.start(), and the
\* first sleep of waitForTunnel
ClientStart ==
    /\ Alive
    /\ client.pc = "idle"
    /\ node.children = <<>>
    /\ Becomes(start(Scripts))
    /\ client' = [client EXCEPT !.pc = "sleep"]
    /\ UNCHANGED broker

\* the second of sleep before a probe is over
Wake ==
    /\ Alive
    /\ client.pc = "sleep"
    /\ client' = [client EXCEPT !.pc = "probe"]
    /\ UNCHANGED <<broker, tunnel, node>>

\* testConnection has its answer and the loop of waitForTunnel goes on; the
\* error it throws is caught by main, which calls process.exit(1)
Probe ==
    /\ Alive
    /\ client.pc = "probe"
    /\ \E outcome \in ProbeOutcomes :
        LET cl == waitForTunnel(client, testConnection(outcome))
        IN  /\ client' = cl
            /\ node' = IF cl.pc = "failed" THEN [node EXCEPT !.exitStatus = 1] ELSE node
    /\ UNCHANGED <<broker, tunnel>>

NextClient ==
    \/ ClientStart
    \/ Wake
    \/ Probe
    \/ ChildExit
    \/ EstablishedTimer
    \/ ReconnectTimer
    \/ Advance
    \/ Shutdown

\* the event loop runs the client's continuations: a sleep ends, a health
\* request is answered or fails
SpecClient ==
    /\ Init
    /\ [][NextClient]_vars
    /\ WF_vars(ClientStart)
    /\ WF_vars(Wake)
    /\ WF_vars(Probe)

\* waitForTunnel has returned or thrown, or the script has exited
WaitOver == client.pc \in {"ready", "failed"} \/ ~Alive

\* C36: waitForTunnel terminates. It probes at most maxAttempts times; every
\* probe but a successful last one has failed, so it returns at the first
\* success and does not probe again; it throws after maxAttempts failed
\* probes, and the script then exits with status 1; the client is ready only
\* after a successful probe.
C36_WaitForTunnelTerminates ==
    /\ [](/\ client.probes <= maxAttempts
          /\ client.i = client.failures
          /\ client.probes = client.failures + (IF client.pc = "ready" THEN 1 ELSE 0)
          /\ (client.pc = "failed")
                => (client.failures = maxAttempts /\ node.exitStatus = 1)
          /\ (client.pc \in {"idle", "sleep", "probe"}) => client.failures < maxAttempts)
    /\ <>WaitOver

\* the tenth probe succeeded after nine failures
C36_Witness ==
    /\ client.pc = "ready"
    /\ client.probes = maxAttempts
    /\ client.failures = maxAttempts - 1

====
